---------------------------- MODULE Spec2Model ----------------------------
(***************************************************************************)
(* Model of src/migration_assessment.py (MuleSoftAnalyzer).                *)
(*                                                                         *)
(* The specifications share the variables below:                           *)
(*   Spec         analyze_project: one project's configuration files are   *)
(*                analysed one after another, then custom code, then the   *)
(*                complexity score.                                        *)
(*   SpecWalk     analyze_repository_folder: the recursive discovery walk  *)
(*                over a directory tree, then generate_report.             *)
(*   SpecWalkFair SpecWalk with the fairness of a running program.         *)
(*   SpecSummary  _calculate_summary_stats over a list of project results. *)
(*   SpecScan     _analyze_dataweave_in_xml over one text.                 *)
(*                                                                         *)
(* Python strings that the code takes apart are modelled by their parts:   *)
(* a URI is the sequence of its '/'-separated segments, an attribute value *)
(* is the sequence of its whitespace-separated tokens, an element tag      *)
(* "{uri}local" is the record [ns, local], a formatted key is the sequence *)
(* of the pieces it is formatted from.                                     *)
(***************************************************************************)
EXTENDS Integers, Sequences, FiniteSets, TLC

(***************************************************************************)
(* Bounds of the model.                                                    *)
(***************************************************************************)
MaxFiles == 2

MaxJavaFiles == 3

MaxDwlFiles == 1

(***************************************************************************)
(* Generic helpers: Python dict and list idioms.                           *)
(***************************************************************************)
EmptyDict == <<>>

Get(d, k, dflt) == IF k \in DOMAIN d THEN d[k] ELSE dflt

Put(d, k, v) == [x \in (DOMAIN d) \cup {k} |-> IF x = k THEN v ELSE d[x]]

Incr(d, k) == Put(d, k, Get(d, k, 0) + 1)

Last(s) == s[Len(s)]

RECURSIVE SumDict(_)
SumDict(d) ==
  IF DOMAIN d = {} THEN 0
  ELSE LET k == CHOOSE x \in DOMAIN d : TRUE
       IN  d[k] + SumDict([x \in (DOMAIN d) \ {k} |-> d[x]])

RECURSIVE SumNested(_)
SumNested(d) ==
  IF DOMAIN d = {} THEN 0
  ELSE LET k == CHOOSE x \in DOMAIN d : TRUE
       IN  SumDict(d[k]) + SumNested([x \in (DOMAIN d) \ {k} |-> d[x]])

Range(s) == {s[i] : i \in DOMAIN s}

(***************************************************************************)
(* Namespace URIs, as sequences of '/'-separated segments.                 *)
(***************************************************************************)
NoNs == <<>>

U_core == <<"http:", "", "www.mulesoft.org", "schema", "mule", "core">>

U_doc == <<"http:", "", "www.mulesoft.org", "schema", "mule", "documentation">>

U_db == <<"http:", "", "www.mulesoft.org", "schema", "mule", "db">>

U_http == <<"http:", "", "www.mulesoft.org", "schema", "mule", "http">>

U_eecore == <<"http:", "", "www.mulesoft.org", "schema", "mule", "ee", "core">>

U_beans == <<"http:", "", "www.springframework.org", "schema", "beans">>

U_xsi == <<"http:", "", "www.w3.org", "2001", "XMLSchema-instance">>

L_xsd == <<"http:", "", "www.mulesoft.org", "schema", "mule", "db", "current", "mule-db.xsd">>

\* 'mulesoft.org/schema/mule' in uri : three consecutive segments, the first
\* ending in mulesoft.org, the second "schema", the third starting with mule.
MatchesConvention(uri) ==
  \E i \in 1..(Len(uri) - 2) :
     /\ uri[i] \in {"www.mulesoft.org", "mulesoft.org"}
     /\ uri[i + 1] = "schema"
     /\ uri[i + 2] \in {"mule", "mulexml"}

\* uri.split('/')[-1]
LastSegment(uri) == IF Len(uri) = 0 THEN "" ELSE Last(uri)

(***************************************************************************)
(* Configuration documents as they are on disk.                            *)
(*   enc    "utf8": readable as UTF-8; "latin1": declares ISO-8859-1 and   *)
(*          holds bytes that are no UTF-8 (open(...,'utf-8').read() raises *)
(*          UnicodeDecodeError, ET.parse succeeds); "binary": neither;     *)
(*          "sjis": declares a multi-byte encoding and holds bytes that    *)
(*          are no UTF-8 (the read raises UnicodeDecodeError, ET.parse     *)
(*          raises ValueError).                                            *)
(*   wf     the text is well-formed XML apart from namespace binding       *)
(*   lines  len(content.splitlines())                                      *)
(*   attrs  the root's attributes as written: [pfx, name, value]           *)
(*   elems  the elements in document order, root first: [pfx, local]       *)
(*   text   the characters the expression scanner looks at                 *)
(***************************************************************************)
Attr(p, n, v) == [pfx |-> p, name |-> n, value |-> v]

El(p, l) == [pfx |-> p, local |-> l]

XmlnsDb == Attr("xmlns", "db", <<U_db>>)

XmlnsHttp == Attr("xmlns", "http", <<U_http>>)

XmlnsDoc == Attr("xmlns", "doc", <<U_doc>>)

XmlnsEe == Attr("xmlns", "ee", <<U_eecore>>)

XmlnsCore == Attr("xmlns", "core", <<U_core>>)

XmlnsBeans == Attr("xmlns", "beans", <<U_beans>>)

XmlnsXsi == Attr("xmlns", "xsi", <<U_xsi>>)

XmlnsDefault == Attr("", "xmlns", <<U_core>>)

SchemaLocDb == Attr("xsi", "schemaLocation", <<U_db, L_xsd>>)

MkDoc(n, e, w, l, a, s, t) ==
  [name |-> n, enc |-> e, wf |-> w, lines |-> l, attrs |-> a, elems |-> s, text |-> t]

(***************************************************************************)
(* xml.etree.ElementTree.parse, as the code uses it.  The parser is        *)
(* namespace-aware: a prefixed name is reported as "{uri}local", a prefix  *)
(* without declaration is a ParseError ("unbound prefix"), and namespace   *)
(* declarations (xmlns, xmlns:p) are consumed: they are NOT in root.attrib.*)
(* Comments and processing instructions are not in the tree.               *)
(***************************************************************************)
IsNsDecl(a) == a.pfx = "xmlns" \/ (a.pfx = "" /\ a.name = "xmlns")

DeclaredPrefixes(doc) ==
  {doc.attrs[i].name : i \in {j \in DOMAIN doc.attrs : doc.attrs[j].pfx = "xmlns"}}

UriOfPrefix(doc, p) ==
  LET i == CHOOSE j \in DOMAIN doc.attrs :
              doc.attrs[j].pfx = "xmlns" /\ doc.attrs[j].name = p
  IN  doc.attrs[i].value[1]

HasDefaultNs(doc) ==
  \E j \in DOMAIN doc.attrs : doc.attrs[j].pfx = "" /\ doc.attrs[j].name = "xmlns"

DefaultNs(doc) ==
  LET i == CHOOSE j \in DOMAIN doc.attrs :
              doc.attrs[j].pfx = "" /\ doc.attrs[j].name = "xmlns"
  IN  doc.attrs[i].value[1]

PrefixBound(doc, p) == p = "" \/ p \in DeclaredPrefixes(doc)

\* ET.parse(path) returns a tree (no ParseError)
ParseOk(doc) ==
  /\ doc.enc # "binary"
  /\ doc.wf
  /\ Len(doc.elems) >= 1
  /\ \A i \in DOMAIN doc.elems : PrefixBound(doc, doc.elems[i].pfx)
  /\ \A i \in DOMAIN doc.attrs :
        IsNsDecl(doc.attrs[i]) \/ PrefixBound(doc, doc.attrs[i].pfx)

\* element.tag : [ns, colon, local] stands for "{ns}local" when ns # NoNs,
\* for "colon:local" when colon # "", for "local" otherwise
ElementTag(doc, e) ==
  [ns    |-> IF e.pfx # "" THEN UriOfPrefix(doc, e.pfx)
             ELSE IF HasDefaultNs(doc) THEN DefaultNs(doc) ELSE NoNs,
   colon |-> "",
   local |-> e.local]

\* a key of root.attrib : [ns, colon, name] stands for "{ns}name" when
\* ns # NoNs, for "colon:name" when colon # "", for "name" otherwise
AttribKey(doc, a) ==
  [ns    |-> IF a.pfx = "" THEN NoNs ELSE UriOfPrefix(doc, a.pfx),
   colon |-> "",
   name  |-> a.name]

RECURSIVE RootAttrib(_, _)
RootAttrib(doc, as) ==
  IF as = <<>> THEN <<>>
  ELSE IF IsNsDecl(Head(as)) THEN RootAttrib(doc, Tail(as))
  ELSE <<[key |-> AttribKey(doc, Head(as)), value |-> Head(as).value]>>
         \o RootAttrib(doc, Tail(as))

\* tree.getroot(): attrib are the items of root.attrib in document order,
\* iter the tags of root.iter() in document order
getroot(doc) ==
  [attrib |-> RootAttrib(doc, doc.attrs),
   iter   |-> [i \in DOMAIN doc.elems |-> ElementTag(doc, doc.elems[i])]]

\* attr_name.startswith('xmlns:')
StartsWithXmlns(key) == key.ns = NoNs /\ key.colon = "xmlns"

\* root.get('{http://www.w3.org/2001/XMLSchema-instance}schemaLocation', '').split()
SchemaLocationParts(root) ==
  LET hit == {i \in DOMAIN root.attrib :
                 /\ root.attrib[i].key.ns = U_xsi
                 /\ root.attrib[i].key.name = "schemaLocation"}
  IN  IF hit = {} THEN <<>>
      ELSE root.attrib[CHOOSE i \in hit : TRUE].value

\* the first attribute whose value is the URI and whose name starts with
\* 'xmlns:' (0 when there is none): the inner for ... break loop
FirstXmlnsAttrFor(root, uri) ==
  LET hit == {i \in DOMAIN root.attrib :
                 /\ root.attrib[i].value = <<uri>>
                 /\ StartsWithXmlns(root.attrib[i].key)}
  IN  IF hit = {} THEN 0 ELSE CHOOSE i \in hit : \A j \in hit : i <= j

(***************************************************************************)
(* _analyze_xml_file                                                       *)
(***************************************************************************)
\* lines 293-310: the schema-location pass, i = 1, 3, 5, ...
RECURSIVE SchemaLocationPass(_, _, _, _)
SchemaLocationPass(root, parts, i, m) ==
  IF i + 1 > Len(parts) THEN m
  ELSE LET uri == parts[i]
           hit == FirstXmlnsAttrFor(root, uri)
           m2  == IF MatchesConvention(uri) /\ hit # 0
                  THEN Put(m, uri, [prefix         |-> root.attrib[hit].key.name,
                                    connector_name |-> LastSegment(uri)])
                  ELSE m
       IN  SchemaLocationPass(root, parts, i + 2, m2)

\* lines 312-320: the direct-declaration pass over root.attrib.items()
RECURSIVE DirectDeclarationPass(_, _, _)
DirectDeclarationPass(attrib, i, m) ==
  IF i > Len(attrib) THEN m
  ELSE LET a  == attrib[i]
           m2 == IF /\ StartsWithXmlns(a.key)
                    /\ Len(a.value) = 1
                    /\ MatchesConvention(a.value[1])
                 THEN Put(m, a.value[1], [prefix         |-> a.key.name,
                                          connector_name |-> LastSegment(a.value[1])])
                 ELSE m
       IN  DirectDeclarationPass(attrib, i + 1, m2)

\* a variant whose schema-location pass keeps every listed connector URI,
\* with or without a declaration of a prefix for it
namespace_mappings_KeepsListedUris(root) ==
  LET parts  == SchemaLocationParts(root)
      listed == {parts[i] : i \in {j \in DOMAIN parts :
                                      /\ j % 2 = 1
                                      /\ j + 1 <= Len(parts)
                                      /\ MatchesConvention(parts[j])}}
  IN  DirectDeclarationPass(root.attrib, 1,
         [uri \in listed |-> [prefix |-> "", connector_name |-> LastSegment(uri)]])

namespace_mappings(root) ==
  DirectDeclarationPass(root.attrib, 1,
     SchemaLocationPass(root, SchemaLocationParts(root), 1, EmptyDict))

\* lines 327-344: the formatted namespace_key of one element
\*   "resolved"  f"{connector_name} ({prefix}:)"
\*   "ns"        f"{connector_name} (ns:)"
\*   "other"     f"other ({namespace_uri})"
\*   "default"   "default"
NsKey(f, n, p, u) == [fmt |-> f, name |-> n, prefix |-> p, uri |-> u]

namespace_key(tag, mappings) ==
  IF tag.ns # NoNs
  THEN IF tag.ns \in DOMAIN mappings
       THEN NsKey("resolved", mappings[tag.ns].connector_name,
                  mappings[tag.ns].prefix, NoNs)
       ELSE IF MatchesConvention(tag.ns)
            THEN NsKey("ns", LastSegment(tag.ns), "", NoNs)
            ELSE NsKey("other", "", "", tag.ns)
  ELSE NsKey("default", "", "", NoNs)

\* lines 325-350: the tally over root.iter()
RECURSIVE TallyFrom(_, _, _, _)
TallyFrom(iter, i, mappings, tally) ==
  IF i > Len(iter) THEN tally
  ELSE LET k     == namespace_key(iter[i], mappings)
           inner == Get(tally, k, EmptyDict)
       IN  TallyFrom(iter, i + 1, mappings, Put(tally, k, Incr(inner, iter[i].local)))

\* a variant that leaves the root element out of the tally
xml_tags_by_namespace_SkipRoot(root) ==
  TallyFrom(root.iter, 2, namespace_mappings(root), EmptyDict)

xml_tags_by_namespace(root) == TallyFrom(root.iter, 1, namespace_mappings(root), EmptyDict)

\* element.tag.endswith('}flow') or element.tag == 'flow'
IsFlowTag(tag) ==
  \/ tag.ns # NoNs /\ tag.local = "flow"
  \/ tag.ns = NoNs /\ tag.colon = "" /\ tag.local = "flow"

\* element.tag.endswith('}sub-flow') or element.tag == 'sub-flow'
IsSubFlowTag(tag) ==
  \/ tag.ns # NoNs /\ tag.local = "sub-flow"
  \/ tag.ns = NoNs /\ tag.colon = "" /\ tag.local = "sub-flow"

\* lines 355-361
flows_count(root) == Cardinality({i \in DOMAIN root.iter : IsFlowTag(root.iter[i])})

subflows_count(root) ==
  Cardinality({i \in DOMAIN root.iter :
                  ~IsFlowTag(root.iter[i]) /\ IsSubFlowTag(root.iter[i])})

\* a variant that forgets to subtract the root element
components_count_WithRoot(root) == Len(root.iter)

\* line 367: len(list(root.iter())) - 1
components_count(root) == Len(root.iter) - 1

\* ET.parse (lines 287, 377) of a document that declares a multi-byte
\* encoding raises ValueError, which neither except clause names
ExtractRaises(doc) == doc.enc = "sjis"

\* the warnings printed for one configuration file: line 370 (the read or the
\* parse of _analyze_xml_file failed), line 445 (the parse of
\* _extract_connectors_from_xml failed), line 479 (the read of
\* _analyze_dataweave_in_xml failed)
FileWarnings(doc) ==
  (IF doc.enc # "utf8" \/ ~ParseOk(doc)
   THEN <<[line |-> 370, file |-> doc.name]>> ELSE <<>>)
  \o (IF ~ExtractRaises(doc) /\ ~ParseOk(doc)
      THEN <<[line |-> 445, file |-> doc.name]>> ELSE <<>>)
  \o (IF ~ExtractRaises(doc) /\ doc.enc # "utf8"
      THEN <<[line |-> 479, file |-> doc.name]>> ELSE <<>>)

\* lines 273-279
EmptyFileAnalysis ==
  [line_count |-> 0, flows |-> 0, subflows |-> 0, components |-> 0,
   xml_tags_by_namespace |-> EmptyDict]

\* lines 271-372.  The read (282-284) raises UnicodeDecodeError before
\* line_count is set; ET.parse (287) raises ParseError after it is set.
_analyze_xml_file(doc) ==
  IF doc.enc # "utf8" THEN EmptyFileAnalysis
  ELSE IF ~ParseOk(doc)
       THEN [EmptyFileAnalysis EXCEPT !.line_count = doc.lines]
       ELSE LET root == getroot(doc)
            IN  [line_count |-> doc.lines,
                 flows      |-> flows_count(root),
                 subflows   |-> subflows_count(root),
                 components |-> components_count(root),
                 xml_tags_by_namespace |-> xml_tags_by_namespace(root)]

(***************************************************************************)
(* _extract_connectors_from_xml                                            *)
(***************************************************************************)
\* connector_name not in ['core', 'documentation']
IsReservedName(c) == c \in {"core", "documentation"}

\* lines 380-396: the schema-location pass, keyed by prefix
RECURSIVE SchemaLocationPrefixes(_, _, _, _)
SchemaLocationPrefixes(root, parts, i, ns) ==
  IF i + 1 > Len(parts) THEN ns
  ELSE LET uri == parts[i]
           hit == FirstXmlnsAttrFor(root, uri)
           n2  == IF /\ MatchesConvention(uri)
                     /\ ~IsReservedName(LastSegment(uri))
                     /\ hit # 0
                  THEN Put(ns, root.attrib[hit].key.name, LastSegment(uri))
                  ELSE ns
       IN  SchemaLocationPrefixes(root, parts, i + 2, n2)

\* lines 398-404: the direct-declaration pass, keyed by prefix
RECURSIVE DirectDeclarationPrefixes(_, _, _)
DirectDeclarationPrefixes(attrib, i, ns) ==
  IF i > Len(attrib) THEN ns
  ELSE LET a  == attrib[i]
           n2 == IF /\ StartsWithXmlns(a.key)
                    /\ Len(a.value) = 1
                    /\ MatchesConvention(a.value[1])
                    /\ ~IsReservedName(LastSegment(a.value[1]))
                 THEN Put(ns, a.key.name, LastSegment(a.value[1]))
                 ELSE ns
       IN  DirectDeclarationPrefixes(attrib, i + 1, n2)

namespaces(root) ==
  DirectDeclarationPrefixes(root.attrib, 1,
     SchemaLocationPrefixes(root, SchemaLocationParts(root), 1, EmptyDict))

\* None and '' are both falsy in `if connector_name:`; "" stands for either
NoConnector == ""

\* lines 409-427: the connector one element is attributed to
connector_name(tag, prefixes) ==
  IF tag.ns # NoNs
  THEN IF MatchesConvention(tag.ns)
       THEN IF IsReservedName(LastSegment(tag.ns)) THEN "core"
            ELSE LastSegment(tag.ns)
       ELSE NoConnector
  ELSE IF tag.colon # ""
       THEN Get(prefixes, tag.colon, NoConnector)
       ELSE "core"

\* a variant that writes the connector in front of core components too
component_type_AlwaysPrefixed(c, local) == <<c, ":", local>>

\* line 435: f"{connector_name}:{local_name}" if connector_name != 'core' else local_name
component_type(c, local) == IF c # "core" THEN <<c, ":", local>> ELSE <<local>>

\* lines 407-437: the attribution loop over root.iter(); cc is the pair of
\* tables [usage |-> connector_usage_count, types |-> component_types]
RECURSIVE AttributeFrom(_, _, _, _)
AttributeFrom(iter, i, prefixes, cc) ==
  IF i > Len(iter) THEN cc
  ELSE LET c   == connector_name(iter[i], prefixes)
           cc2 == IF c # NoConnector
                  THEN [usage |-> Incr(cc.usage, c),
                        types |-> Incr(cc.types, component_type(c, iter[i].local))]
                  ELSE cc
       IN  AttributeFrom(iter, i + 1, prefixes, cc2)

\* a variant that takes the connectors from the usage table
UpdateUniqueConnectors_FromUsage(analysis, prefixes) ==
  analysis.unique_connectors \cup DOMAIN analysis.connector_usage_count

\* lines 439-442: unique_connectors.update(namespaces.values())
UpdateUniqueConnectors(analysis, prefixes) ==
  analysis.unique_connectors \cup {prefixes[p] : p \in DOMAIN prefixes}

\* a variant that keeps the tables of the last file only
_extract_connectors_from_xml_FreshTables(doc, analysis) ==
  IF ~ParseOk(doc) THEN analysis
  ELSE LET root == getroot(doc)
           pfx  == namespaces(root)
           cc   == AttributeFrom(root.iter, 1, pfx,
                      [usage |-> EmptyDict, types |-> EmptyDict])
           counted == [analysis EXCEPT !.connector_usage_count = cc.usage,
                                       !.component_types = cc.types]
       IN  [counted EXCEPT
              !.unique_connectors = UpdateUniqueConnectors(counted, pfx)]

\* lines 374-445.  ET.parse (377) raises ParseError before anything is
\* changed; the analysis is then left as it was.
_extract_connectors_from_xml(doc, analysis) ==
  IF ~ParseOk(doc) THEN analysis
  ELSE LET root == getroot(doc)
           pfx  == namespaces(root)
           cc   == AttributeFrom(root.iter, 1, pfx,
                      [usage |-> analysis.connector_usage_count,
                       types |-> analysis.component_types])
           counted == [analysis EXCEPT !.connector_usage_count = cc.usage,
                                       !.component_types = cc.types]
       IN  [counted EXCEPT
              !.unique_connectors = UpdateUniqueConnectors(counted, pfx)]

(***************************************************************************)
(* _analyze_dataweave_in_xml.  The text is a sequence of characters; the   *)
(* literals "<![CDATA[", "output application/json" and "---" are single    *)
(* items of it, "\n" is the line break.                                    *)
(***************************************************************************)
\* the first index >= i at which the items of lit occur in text, 0 if none
FirstAt(text, i, lit) ==
  LET hit == {j \in i..(Len(text) - Len(lit) + 1) :
                 \A k \in 1..Len(lit) : text[j + k - 1] = lit[k]}
  IN  IF hit = {} THEN 0 ELSE CHOOSE j \in hit : \A h \in hit : j <= h

LitAt(text, i, lit) ==
  /\ i + Len(lit) - 1 <= Len(text)
  /\ \A k \in 1..Len(lit) : text[i + k - 1] = lit[k]

\* r'#\[.*?\]' matched at i: the index of the last character of the match,
\* 0 when there is no match starting at i
MatchSimple(text, i) ==
  IF LitAt(text, i, <<"#", "[">>) THEN FirstAt(text, i + 2, <<"]">>) ELSE 0

\* r'<!\[CDATA\[#\[.*?\]\]\]>'
MatchCdata(text, i) ==
  IF LitAt(text, i, <<"<![CDATA[", "#", "[">>)
  THEN LET j == FirstAt(text, i + 3, <<"]", "]", "]", ">">>)
       IN  IF j = 0 THEN 0 ELSE j + 3
  ELSE 0

\* r'output\s+application/\w+.*?---.*?(?=\]\]>|\])'
MatchTransform(text, i) ==
  IF LitAt(text, i, <<"output application/json">>)
  THEN LET k == FirstAt(text, i + 1, <<"---">>)
           j == IF k = 0 THEN 0 ELSE FirstAt(text, k + 1, <<"]">>)
       IN  IF j = 0 THEN 0 ELSE j - 1
  ELSE 0

\* match.count('\n') + 1
LineSpan(text, i, j) == Cardinality({k \in i..j : text[k] = "\n"}) + 1

\* re.findall(pattern, content): the line spans of the non-overlapping
\* matches, scanning from position i
RECURSIVE FindAllSpans(_, _, _)
FindAllSpans(Match(_, _), text, i) ==
  IF i > Len(text) THEN <<>>
  ELSE LET j == Match(text, i)
       IN  IF j = 0 THEN FindAllSpans(Match, text, i + 1)
           ELSE <<LineSpan(text, i, j)>> \o FindAllSpans(Match, text, j + 1)

AllSpans(text) ==
  FindAllSpans(MatchSimple, text, 1) \o FindAllSpans(MatchCdata, text, 1)
    \o FindAllSpans(MatchTransform, text, 1)

RECURSIVE SumSeq(_)
SumSeq(s) == IF s = <<>> THEN 0 ELSE Head(s) + SumSeq(Tail(s))

\* line 471: lines > 10
ComplexSpanLimit == 10

\* lines 447-479.  The read (450-451) raises UnicodeDecodeError before
\* anything is changed.
_analyze_dataweave_in_xml(doc, analysis) ==
  IF doc.enc # "utf8" THEN analysis
  ELSE LET spans == AllSpans(doc.text)
       IN  [analysis EXCEPT
              !.inline_dw_expressions_count = @ + Len(spans),
              !.complex_transformations =
                  @ + Cardinality({k \in DOMAIN spans : spans[k] > ComplexSpanLimit}),
              !.total_dw_lines = @ + SumSeq(spans)]

(***************************************************************************)
(* analyze_project and the per-project passes.  The nested dictionaries of *)
(* project_analysis are one flat record; the fields no modelled operation  *)
(* reads (java_classes, shared_resources, ...) are left out.               *)
(***************************************************************************)
\* a version string, as the sequence of its '.'-separated parts
V_unknown == <<"unknown">>

V_4 == <<"4", "4", "0">>

V_3 == <<"3", "9", "7">>

V_plugin == <<"plugin-3", "8", "2">>

\* version.startswith('4.') and version.startswith('3.')
StartsWithMajor(version, major) == Len(version) >= 2 /\ version[1] = major

\* lines 138-188; a path is the sequence of its parts below the analysis root
NewProjectAnalysis(path) ==
  [project_name |-> IF path = <<>> THEN "" ELSE Last(path),
   project_path |-> path,
   mule_version |-> V_unknown,
   is_legacy |-> FALSE,
   count |-> 0,
   files |-> <<>>,
   total_flows |-> 0,
   total_subflows |-> 0,
   flows_per_file |-> EmptyDict,
   unique_connectors |-> {},
   connector_usage_count |-> EmptyDict,
   component_types |-> EmptyDict,
   total_components |-> 0,
   complexity_score |-> 0,
   dwl_files_count |-> 0,
   inline_dw_expressions_count |-> 0,
   complex_transformations |-> 0,
   total_dw_lines |-> 0,
   java_files_count |-> 0,
   total_custom_code_lines |-> 0,
   munit_test_files |-> 0,
   large_files |-> <<>>]

\* lines 200-230.  pom is what project_path / 'pom.xml' holds:
\*   "none" no file, "malformed" ParseError, "bare" neither element,
\*   "v4" / "v3" a mule.version property, "plugin" only the plugin version.
\* ("empty": a mule.version element without text makes line 216 raise
\*  AttributeError, which nothing catches; see PomCrashes.)
_analyze_mule_version(pom, analysis) ==
  CASE pom = "v4"     -> [analysis EXCEPT !.mule_version = V_4, !.is_legacy = FALSE]
    [] pom = "v3"     -> [analysis EXCEPT !.mule_version = V_3, !.is_legacy = TRUE]
    [] pom = "plugin" -> [analysis EXCEPT !.mule_version = V_plugin]
    [] OTHER          -> analysis

PomCrashes(pom) == pom = "empty"

\* lines 229-230: the ParseError of a malformed pom.xml is printed
PomWarnings(pom) ==
  IF pom = "malformed" THEN <<[line |-> 230, file |-> "pom.xml"]>> ELSE <<>>

\* line 259: file_analysis['line_count'] > 1000
LargeFileLimit == 1000

\* a variant whose tally is one table for all files, never emptied
RecordFile_TallyCarriedOver(doc, fa, analysis) ==
  [analysis EXCEPT
     !.files = Append(@, [filename   |-> doc.name,
                          size_lines |-> fa.line_count,
                          flows      |-> fa.flows,
                          subflows   |-> fa.subflows,
                          components |-> fa.components,
                          xml_tags_by_namespace |->
                             IF analysis.files = <<>> THEN fa.xml_tags_by_namespace
                             ELSE fa.xml_tags_by_namespace
                                    @@ Last(analysis.files).xml_tags_by_namespace]),
     !.total_flows = @ + fa.flows,
     !.total_subflows = @ + fa.subflows,
     !.flows_per_file = Put(@, doc.name, fa.flows),
     !.total_components = @ + fa.components,
     !.large_files = IF fa.line_count > LargeFileLimit
                     THEN Append(@, [filename |-> doc.name, lines |-> fa.line_count])
                     ELSE @]

\* lines 241-263: the record of one file and the project's running totals
RecordFile(doc, fa, analysis) ==
  [analysis EXCEPT
     !.files = Append(@, [filename   |-> doc.name,
                          size_lines |-> fa.line_count,
                          flows      |-> fa.flows,
                          subflows   |-> fa.subflows,
                          components |-> fa.components,
                          xml_tags_by_namespace |-> fa.xml_tags_by_namespace]),
     !.total_flows = @ + fa.flows,
     !.total_subflows = @ + fa.subflows,
     !.flows_per_file = Put(@, doc.name, fa.flows),
     !.total_components = @ + fa.components,
     !.large_files = IF fa.line_count > LargeFileLimit
                     THEN Append(@, [filename |-> doc.name, lines |-> fa.line_count])
                     ELSE @]

\* lines 240-269: one iteration of the loop over xml_files
AnalyzeOneFile(doc, analysis) ==
  _analyze_dataweave_in_xml(doc,
     _extract_connectors_from_xml(doc,
        RecordFile(doc, _analyze_xml_file(doc), analysis)))

\* line 519: lines > 100
ComplexDwlLimit == 100

\* lines 481-522.  java: n files, bad of them undecodable, the others of
\* jl lines each; dwl: m files of dl lines each.  Without the directory the
\* counts stay 0, as for an empty directory.
_analyze_custom_code(n, bad, jl, m, dl, analysis) ==
  [analysis EXCEPT
     !.java_files_count = n,
     !.total_custom_code_lines = (n - bad) * jl,
     !.dwl_files_count = m,
     !.total_dw_lines = @ + m * dl,
     !.complex_transformations = @ + (IF dl > ComplexDwlLimit THEN m ELSE 0)]

\* lines 524-530: the number of MUnit files found
_analyze_tests(munit, analysis) == [analysis EXCEPT !.munit_test_files = munit]

\* lines 43-67
connector_complexity_scores ==
  ("http" :> 1) @@ ("db" :> 2) @@ ("file" :> 1) @@ ("ftp" :> 2) @@ ("sftp" :> 2)
  @@ ("jms" :> 3) @@ ("vm" :> 1) @@ ("sap" :> 5) @@ ("salesforce" :> 4)
  @@ ("servicenow" :> 4) @@ ("aws-s3" :> 3) @@ ("aws-sqs" :> 3) @@ ("email" :> 2)
  @@ ("compression" :> 1) @@ ("crypto" :> 2) @@ ("validation" :> 1) @@ ("json" :> 1)
  @@ ("xml" :> 2) @@ ("apikit" :> 2) @@ ("oauth" :> 3) @@ ("spring" :> 2)
  @@ ("scripting" :> 3) @@ ("java" :> 4)

\* a variant with default weight 1
base_score_Default1(connector) == Get(connector_complexity_scores, connector, 1)

\* line 588: self.connector_complexity_scores.get(connector, 2)
base_score(connector) == Get(connector_complexity_scores, connector, 2)

\* lines 587-589: the loop over connector_usage_count.items()
RECURSIVE ConnectorTerm(_)
ConnectorTerm(usage) ==
  IF DOMAIN usage = {} THEN 0
  ELSE LET c == CHOOSE x \in DOMAIN usage : TRUE
       IN  base_score(c) * usage[c]
             + ConnectorTerm([x \in (DOMAIN usage) \ {c} |-> usage[x]])

\* lines 582-607.  The score is kept in hundredths: every term is a whole
\* number of hundredths (0.1 and 0.01 are the smallest weights), and
\* round(score, 2) returns the double nearest to that number of hundredths.
ScoreInHundredths(analysis) ==
  100 * ConnectorTerm(analysis.connector_usage_count)
  + 200 * analysis.total_flows
  + 100 * analysis.total_subflows
  + 10 * analysis.total_components
  + 500 * analysis.java_files_count
  + 1 * analysis.total_custom_code_lines
  + 300 * analysis.dwl_files_count
  + 500 * analysis.complex_transformations
  + 1000 * Len(analysis.large_files)

\* a variant that weighs a large file 1 instead of 10
_calculate_project_complexity_LargeFileWeight1(analysis) ==
  [analysis EXCEPT !.complexity_score =
      ScoreInHundredths(analysis) - 900 * Len(analysis.large_files)]

_calculate_project_complexity(analysis) ==
  [analysis EXCEPT !.complexity_score = ScoreInHundredths(analysis)]

\* lines 232-269: the whole loop over xml_files
RECURSIVE AnalyzeFiles(_, _)
AnalyzeFiles(fs, analysis) ==
  IF fs = <<>> THEN analysis
  ELSE AnalyzeFiles(Tail(fs), AnalyzeOneFile(Head(fs), analysis))

_analyze_configuration_files(fs, analysis) ==
  AnalyzeFiles(fs, [analysis EXCEPT !.count = Len(fs)])

\* the warnings analyze_project prints for the project's configuration
\* files; nothing is printed after a file that makes line 377 raise
RECURSIVE WarningsOfFiles(_)
WarningsOfFiles(fs) ==
  IF fs = <<>> THEN <<>>
  ELSE FileWarnings(Head(fs))
         \o (IF ExtractRaises(Head(fs)) THEN <<>> ELSE WarningsOfFiles(Tail(fs)))

ProjectWarnings(content) ==
  IF PomCrashes(content.pom) THEN <<>>
  ELSE PomWarnings(content.pom) \o WarningsOfFiles(content.files)

\* an exception leaves analyze_project: AttributeError at line 216 or the
\* ValueError of line 377
ProjectRaises(content) ==
  \/ PomCrashes(content.pom)
  \/ \E i \in DOMAIN content.files : ExtractRaises(content.files[i])

\* lines 136-198.  content is what the project directory holds:
\*   [pom, files, java, badjava, javalines, dwl, dwllines, munit]
analyze_project(path, content) ==
  _calculate_project_complexity(
    _analyze_tests(content.munit,
      _analyze_custom_code(content.java, content.badjava, content.javalines,
                           content.dwl, content.dwllines,
        _analyze_configuration_files(content.files,
          _analyze_mule_version(content.pom, NewProjectAnalysis(path))))))

(***************************************************************************)
(* Python floats (IEEE 754 binary64, round to nearest even), for the sum   *)
(* of the projects' scores.  A non-negative double is [e, m]: m is the 53  *)
(* bit significand, most significant bit first, m[1] = 1, and the value is *)
(* m[1].m[2]...m[53] * 2^e; zero has an all-zero significand.              *)
(***************************************************************************)
SignificandBits == 53

Zeros(n) == [i \in 1..n |-> 0]

FloatZero == [e |-> 0, m |-> Zeros(SignificandBits)]

RECURSIVE Pow2(_)
Pow2(n) == IF n = 0 THEN 1 ELSE 2 * Pow2(n - 1)

\* the bits of A + B for bit sequences of equal length, one bit longer;
\* c[i] is the carry out of the positions after i
AddBits(A, B) ==
  LET L == Len(A)
      c[i \in 0..L] == IF i = L THEN 0 ELSE (A[i + 1] + B[i + 1] + c[i + 1]) \div 2
  IN  [i \in 1..(L + 1) |-> IF i = 1 THEN c[0] ELSE (A[i - 1] + B[i - 1] + c[i - 1]) % 2]

\* round the exact significand bits (bits[1] = 1, value bits[1].bits[2]... * 2^e)
\* to 53 bits, ties to even
RoundBits(e, bits) ==
  LET n      == SignificandBits
      padded == IF Len(bits) < n + 1 THEN bits \o Zeros(n + 1 - Len(bits)) ELSE bits
      kept   == SubSeq(padded, 1, n)
      guard  == padded[n + 1]
      sticky == \E i \in (n + 2)..Len(padded) : padded[i] = 1
      up     == guard = 1 /\ (sticky \/ kept[n] = 1)
      inc    == AddBits(kept, [i \in 1..n |-> IF i = n THEN 1 ELSE 0])
  IN  IF ~up THEN [e |-> e, m |-> kept]
      ELSE IF inc[1] = 1 THEN [e |-> e + 1, m |-> SubSeq(inc, 1, n)]
      ELSE [e |-> e, m |-> SubSeq(inc, 2, n + 1)]

\* the first k quotient bits of r / den (1 <= r / den < 2), followed by one
\* bit that says whether a remainder is left
RECURSIVE DivBits(_, _, _)
DivBits(r, den, k) ==
  IF k = 0 THEN <<IF r = 0 THEN 0 ELSE 1>>
  ELSE IF r >= den THEN <<1>> \o DivBits(2 * (r - den), den, k - 1)
  ELSE <<0>> \o DivBits(2 * r, den, k - 1)

\* the exponent of h / 100: the e with 2^e <= h / 100 < 2^(e + 1)
RECURSIVE ExponentUp(_, _)
ExponentUp(h, e) == IF 100 * Pow2(e + 1) <= h THEN ExponentUp(h, e + 1) ELSE e

RECURSIVE ExponentDown(_, _)
ExponentDown(h, k) == IF h * Pow2(k) >= 100 THEN k ELSE ExponentDown(h, k + 1)

\* the double that round(score, 2) returns for a score of h hundredths: the
\* double nearest to h / 100
FloatOfHundredths(h) ==
  IF h = 0 THEN FloatZero
  ELSE IF h >= 100
       THEN LET e == ExponentUp(h, 0)
            IN  RoundBits(e, DivBits(h, 100 * Pow2(e), SignificandBits + 1))
       ELSE LET k == ExponentDown(h, 0)
            IN  RoundBits(0 - k, DivBits(h * Pow2(k), 100, SignificandBits + 1))

\* a + b for non-negative doubles
FloatAdd(a, b) ==
  IF a = FloatZero THEN b
  ELSE IF b = FloatZero THEN a
  ELSE LET hi == IF a.e >= b.e THEN a ELSE b
           lo == IF a.e >= b.e THEN b ELSE a
           d  == hi.e - lo.e
           s  == AddBits(hi.m \o Zeros(d), Zeros(d) \o lo.m)
       IN  IF s[1] = 1 THEN RoundBits(hi.e + 1, s)
           ELSE RoundBits(hi.e, Tail(s))

(***************************************************************************)
(* _calculate_summary_stats                                                *)
(***************************************************************************)
\* lines 33-38
InitialSummary ==
  [total_projects |-> 0, mule_4_projects |-> 0, mule_3_projects |-> 0,
   unknown_version_projects |-> 0]

\* lines 615-622: the bucket one project is counted in
VersionBucket(project) ==
  IF StartsWithMajor(project.mule_version, "4") THEN "mule_4_projects"
  ELSE IF StartsWithMajor(project.mule_version, "3") THEN "mule_3_projects"
  ELSE "unknown_version_projects"

\* lines 611-622: the loop over the projects, counts is the three counters
RECURSIVE CountVersions(_, _)
CountVersions(ps, counts) ==
  IF ps = <<>> THEN counts
  ELSE CountVersions(Tail(ps),
          [counts EXCEPT ![VersionBucket(Head(ps))] = @ + 1])

\* sum(p[field] for p in projects), an integer field
RECURSIVE SumField(_, _, _)
SumField(ps, field, acc) ==
  IF ps = <<>> THEN acc ELSE SumField(Tail(ps), field, acc + Head(ps)[field])

\* line 636: sum(p['complexity_score'] for p in projects), left to right
RECURSIVE SumScores(_, _)
SumScores(ps, acc) ==
  IF ps = <<>> THEN acc
  ELSE SumScores(Tail(ps), FloatAdd(acc, FloatOfHundredths(Head(ps).complexity_score)))

\* all_connectors[connector] += count for the items of one dict
RECURSIVE AddCounts(_, _)
AddCounts(counter, d) ==
  IF DOMAIN d = {} THEN counter
  ELSE LET k == CHOOSE x \in DOMAIN d : TRUE
       IN  AddCounts(Put(counter, k, Get(counter, k, 0) + d[k]),
                     [x \in (DOMAIN d) \ {k} |-> d[x]])

\* lines 642-648: the Counter merge over the projects
RECURSIVE MergeCounts(_, _, _)
MergeCounts(ps, field, counter) ==
  IF ps = <<>> THEN counter
  ELSE MergeCounts(Tail(ps), field, AddCounts(counter, Head(ps)[field]))

\* a variant whose version counters go on from the previous call
_calculate_summary_stats_AddsToOld(ps, old) ==
  LET counts == CountVersions(ps, [mule_4_projects |-> old.mule_4_projects,
                                   mule_3_projects |-> old.mule_3_projects,
                                   unknown_version_projects |->
                                      old.unknown_version_projects])
  IN  [total_projects |-> old.total_projects,
       mule_4_projects |-> counts.mule_4_projects,
       mule_3_projects |-> counts.mule_3_projects,
       unknown_version_projects |-> counts.unknown_version_projects,
       total_flows |-> SumField(ps, "total_flows", 0),
       total_subflows |-> SumField(ps, "total_subflows", 0),
       total_components |-> SumField(ps, "total_components", 0),
       total_java_files |-> SumField(ps, "java_files_count", 0),
       total_dwl_files |-> SumField(ps, "dwl_files_count", 0),
       total_munit_tests |-> SumField(ps, "munit_test_files", 0),
       total_complexity_score |-> SumScores(ps, FloatZero),
       connector_usage_summary |-> MergeCounts(ps, "connector_usage_count", EmptyDict),
       component_types_summary |-> MergeCounts(ps, "component_types", EmptyDict)]

\* lines 609-651
_calculate_summary_stats(ps, old) ==
  LET counts == CountVersions(ps, [mule_4_projects |-> 0, mule_3_projects |-> 0,
                                   unknown_version_projects |-> 0])
  IN  [total_projects |-> old.total_projects,
       mule_4_projects |-> counts.mule_4_projects,
       mule_3_projects |-> counts.mule_3_projects,
       unknown_version_projects |-> counts.unknown_version_projects,
       total_flows |-> SumField(ps, "total_flows", 0),
       total_subflows |-> SumField(ps, "total_subflows", 0),
       total_components |-> SumField(ps, "total_components", 0),
       total_java_files |-> SumField(ps, "java_files_count", 0),
       total_dwl_files |-> SumField(ps, "dwl_files_count", 0),
       total_munit_tests |-> SumField(ps, "munit_test_files", 0),
       total_complexity_score |-> SumScores(ps, FloatZero),
       connector_usage_summary |-> MergeCounts(ps, "connector_usage_count", EmptyDict),
       component_types_summary |-> MergeCounts(ps, "component_types", EmptyDict)]

(***************************************************************************)
(* The configuration documents the model draws from.                       *)
(***************************************************************************)
\* an embedded expression of n + 1 lines: #[ x \n x \n ... x ]
RECURSIVE BodyLines(_)
BodyLines(n) == IF n = 0 THEN <<"x">> ELSE <<"x", "\n">> \o BodyLines(n - 1)

ExprOfLines(n) == <<"#", "[">> \o BodyLines(n - 1) \o <<"]">>

D_db ==
  MkDoc("db.xml", "utf8", TRUE, 3, <<XmlnsDb>>,
        <<El("", "flow"), El("db", "select")>>, <<>>)

D_orders ==
  MkDoc("orders.xml", "utf8", TRUE, 40,
        <<XmlnsDefault, XmlnsDoc, XmlnsHttp, XmlnsDb, XmlnsEe, XmlnsXsi, SchemaLocDb>>,
        <<El("", "mule"), El("", "flow"), El("http", "listener"),
          El("ee", "transform"), El("", "sub-flow"), El("db", "select")>>,
        ExprOfLines(1))

D_flowroot ==
  MkDoc("flow-root.xml", "utf8", TRUE, 1, <<>>, <<El("", "flow")>>, <<>>)

D_subroot ==
  MkDoc("sub-root.xml", "utf8", TRUE, 2, <<XmlnsDefault>>,
        <<El("", "sub-flow"), El("", "logger")>>, <<>>)

D_big ==
  MkDoc("big.xml", "utf8", TRUE, 1200, <<>>, <<El("", "mule")>>, <<>>)

D_bigbeans ==
  MkDoc("big-beans.xml", "utf8", TRUE, 1200, <<XmlnsBeans>>,
        <<El("beans", "beans")>>, <<>>)

D_broken ==
  MkDoc("broken.xml", "utf8", FALSE, 1200, <<>>, <<El("", "mule")>>, <<>>)

D_unbound ==
  MkDoc("unbound.xml", "utf8", TRUE, 5, <<>>,
        <<El("", "mule"), El("db", "select")>>, <<>>)

D_latin1 ==
  MkDoc("latin1.xml", "latin1", TRUE, 1001, <<XmlnsHttp>>,
        <<El("", "mule"), El("", "flow"), El("http", "request")>>, ExprOfLines(1))

D_binary ==
  MkDoc("binary.xml", "binary", FALSE, 1200, <<>>, <<El("", "mule")>>, <<>>)

\* declared in a multi-byte encoding, with bytes that are not UTF-8
D_sjis ==
  MkDoc("sjis.xml", "sjis", TRUE, 3, <<XmlnsDb>>,
        <<El("", "mule"), El("", "flow"), El("db", "select")>>, <<>>)

D_thousand ==
  MkDoc("thousand.xml", "utf8", TRUE, 1000, <<XmlnsDefault>>,
        <<El("", "mule"), El("", "flow"), El("", "flow")>>, <<>>)

D_core ==
  MkDoc("core-prefixed.xml", "utf8", TRUE, 6, <<XmlnsCore, XmlnsDoc, XmlnsEe>>,
        <<El("core", "mule"), El("core", "flow"), El("ee", "transform")>>,
        ExprOfLines(11))

DocSet ==
  {D_db, D_orders, D_flowroot, D_subroot, D_big, D_bigbeans, D_broken,
   D_unbound, D_latin1, D_binary, D_sjis, D_thousand, D_core}

DocByName(n) == CHOOSE d \in DocSet : d.name = n

\* the lists glob('**/*.xml') can return: distinct files, in any order
RECURSIVE FileLists(_)
FileLists(n) ==
  IF n = 0 THEN {<<>>}
  ELSE LET shorter == FileLists(n - 1)
       IN  shorter \cup {Append(fs, d) : fs \in {x \in shorter : Len(x) = n - 1},
                                          d \in DocSet}

DistinctFileLists ==
  {fs \in FileLists(MaxFiles) : \A i, j \in DOMAIN fs : i # j => fs[i] # fs[j]}

PomChoices == {"none", "malformed", "bare", "v4", "v3", "plugin", "empty"}

JavaLineChoices == {0, 40}

DwlLineChoices == {5, 101}

MunitChoices == {0, 2}

(***************************************************************************)
(* State.                                                                  *)
(***************************************************************************)
VARIABLES
  pc,               \* the position of the run
  analysis,         \* project_analysis of the project being analysed
  xml_files,        \* the configuration files still to be processed
  tree,             \* the directory tree under the analysis root
  target_projects,  \* self.target_projects
  stack,            \* the frames of _find_mulesoft_projects_recursive
  projects,         \* self.analysis_results['projects']
  summary,          \* self.analysis_results['summary']
  visited,          \* history: the directory entries the walk has looked at
  warnings,         \* history: the "Warning: ..." lines printed so far
  report_files      \* the files written in the output directory

vars ==
  <<pc, analysis, xml_files, tree, target_projects, stack, projects, summary, visited,
    warnings, report_files>>

walkVars == <<tree, target_projects, stack, projects, summary, visited, report_files>>

(***************************************************************************)
(* Spec: analyze_project of one project.                                   *)
(***************************************************************************)
NoTree == [exists |-> FALSE, roots |-> {}]

Init ==
  /\ pc = "version"
  /\ analysis = NewProjectAnalysis(<<"orders">>)
  /\ xml_files = <<>>
  /\ tree = NoTree
  /\ target_projects = {}
  /\ stack = <<>>
  /\ projects = <<>>
  /\ summary = InitialSummary
  /\ visited = {}
  /\ warnings = <<>>
  /\ report_files = {}

\* line 191
AnalyzeMuleVersion ==
  /\ pc = "version"
  /\ \E pom \in PomChoices :
       IF PomCrashes(pom)
       THEN pc' = "crashed" /\ UNCHANGED <<analysis, warnings>>
       ELSE /\ pc' = "config"
            /\ analysis' = _analyze_mule_version(pom, analysis)
            /\ warnings' = warnings \o PomWarnings(pom)
  /\ UNCHANGED <<xml_files, walkVars>>

\* lines 234-238
ListConfigurationFiles ==
  /\ pc = "config"
  /\ \E fs \in DistinctFileLists :
       /\ xml_files' = fs
       /\ analysis' = [analysis EXCEPT !.count = Len(fs)]
  /\ pc' = "files"
  /\ UNCHANGED <<warnings, walkVars>>

\* lines 240-269, one iteration; an exception that line 444 does not catch
\* leaves the loop, analyze_project and the run
AnalyzeNextFile ==
  /\ pc = "files"
  /\ xml_files # <<>>
  /\ LET doc == Head(xml_files)
     IN  /\ warnings' = warnings \o FileWarnings(doc)
         /\ IF ExtractRaises(doc)
            THEN /\ pc' = "crashed"
                 /\ analysis' = RecordFile(doc, _analyze_xml_file(doc), analysis)
            ELSE /\ pc' = pc
                 /\ analysis' = AnalyzeOneFile(doc, analysis)
  /\ xml_files' = Tail(xml_files)
  /\ UNCHANGED walkVars

\* line 193
AnalyzeCustomCode ==
  /\ pc = "files"
  /\ xml_files = <<>>
  /\ \E n \in 0..MaxJavaFiles, bad \in 0..1, jl \in JavaLineChoices,
        m \in 0..MaxDwlFiles, dl \in DwlLineChoices :
       /\ bad <= n
       /\ analysis' = _analyze_custom_code(n, bad, jl, m, dl, analysis)
  /\ pc' = "tests"
  /\ UNCHANGED <<xml_files, warnings, walkVars>>

\* lines 194-195 (_analyze_shared_resources writes only fields left out here)
AnalyzeTests ==
  /\ pc = "tests"
  /\ \E munit \in MunitChoices : analysis' = _analyze_tests(munit, analysis)
  /\ pc' = "complexity"
  /\ UNCHANGED <<xml_files, warnings, walkVars>>

\* line 196
CalculateProjectComplexity ==
  /\ pc = "complexity"
  /\ analysis' = _calculate_project_complexity(analysis)
  /\ pc' = "done"
  /\ UNCHANGED <<xml_files, warnings, walkVars>>

Next ==
  \/ AnalyzeMuleVersion
  \/ ListConfigurationFiles
  \/ AnalyzeNextFile
  \/ AnalyzeCustomCode
  \/ AnalyzeTests
  \/ CalculateProjectComplexity

Spec == Init /\ [][Next]_vars

(***************************************************************************)
(* Properties of analyze_project (checked under Spec).                     *)
(***************************************************************************)
\* _analyze_xml_file read and parsed the file
FileAnalysed(doc) == doc.enc = "utf8" /\ ParseOk(doc)

FileDoc(i) == DocByName(analysis.files[i].filename)

\* C1: for every configuration file that _analyze_xml_file parsed, the
\* recorded `components` is the number of elements of the document minus 1,
\* and total_components is the sum of `components` over the project's files.
C1_ComponentsAreElementsMinusRoot ==
  /\ \A i \in DOMAIN analysis.files :
        FileAnalysed(FileDoc(i))
          => analysis.files[i].components = Len(FileDoc(i).elems) - 1
  /\ analysis.total_components
        = SumSeq([i \in DOMAIN analysis.files |-> analysis.files[i].components])

C1_Witness ==
  /\ Len(analysis.files) = 2
  /\ \A i \in DOMAIN analysis.files :
        FileAnalysed(FileDoc(i)) /\ analysis.files[i].components >= 2
  /\ analysis.total_components >= 4

\* C2: for every parsed document, also one whose root is itself a flow or a
\* sub-flow, flows + subflows <= components.
C2_FlowsWithinComponents ==
  \A i \in DOMAIN analysis.files :
     FileAnalysed(FileDoc(i))
       => analysis.files[i].flows + analysis.files[i].subflows
            <= analysis.files[i].components

\* C3 as stated: for every analysed file, `components` equals the sum of all
\* occurrence counts of the file's xml_tags_by_namespace tally.
C3_ComponentsEqualTallySum ==
  \A i \in DOMAIN analysis.files :
     analysis.files[i].components = SumNested(analysis.files[i].xml_tags_by_namespace)

\* C3 as amended: for every file that was parsed, the sum of all occurrence
\* counts of the tally is `components` + 1 (the root is tallied but not
\* counted as a component); for a file that was not, both are 0.
C3_TallySumIsComponentsPlusRoot ==
  \A i \in DOMAIN analysis.files :
     LET f == analysis.files[i]
     IN  IF FileAnalysed(FileDoc(i))
         THEN SumNested(f.xml_tags_by_namespace) = f.components + 1
         ELSE SumNested(f.xml_tags_by_namespace) = 0 /\ f.components = 0

C3_Witness ==
  \E i \in DOMAIN analysis.files :
     /\ FileAnalysed(FileDoc(i))
     /\ Cardinality(DOMAIN analysis.files[i].xml_tags_by_namespace) >= 2
     /\ SumNested(analysis.files[i].xml_tags_by_namespace) >= 3

\* C4: after any sequence of processed configuration files, unique_connectors
\* does not contain the reserved name "core", whatever namespace declarations
\* (also ones whose URI ends in /core or /documentation) the files carry.
C4_NoCoreInUniqueConnectors == "core" \notin analysis.unique_connectors

DeclaresReservedNamespace(doc) ==
  \E i \in DOMAIN doc.attrs :
     /\ IsNsDecl(doc.attrs[i])
     /\ IsReservedName(LastSegment(doc.attrs[i].value[1]))

C4_Witness ==
  /\ pc = "files"
  /\ \E i \in DOMAIN analysis.files :
        FileAnalysed(FileDoc(i)) /\ DeclaresReservedNamespace(FileDoc(i))
  /\ "core" \in DOMAIN analysis.connector_usage_count

\* the weight of a connector, read off the static table
Weight(c) ==
  IF c \in DOMAIN connector_complexity_scores
  THEN connector_complexity_scores[c] ELSE 2

ExpectedScore(a) ==
  100 * SumDict([c \in DOMAIN a.connector_usage_count
                    |-> Weight(c) * a.connector_usage_count[c]])
  + 200 * a.total_flows + 100 * a.total_subflows + 10 * a.total_components
  + 500 * a.java_files_count + a.total_custom_code_lines
  + 300 * a.dwl_files_count + 500 * a.complex_transformations
  + 1000 * Len(a.large_files)

\* C8: the complexity score is a function of the accumulated counts alone:
\* in hundredths it is 100*sum(weight(c)*count(c)) + 200*flows + 100*subflows
\* + 10*components + 500*java files + custom code lines + 300*dwl files
\* + 500*complex transformations + 1000*large files, and computing it
\* changes no field other than complexity_score.
C8_ScoreIsFunctionOfCounts ==
  [][pc = "complexity"
       => /\ analysis'.complexity_score = ExpectedScore(analysis)
          /\ [analysis' EXCEPT !.complexity_score = analysis.complexity_score]
               = analysis]_vars

C8_Witness ==
  /\ pc = "done"
  /\ {"core", "http"} \subseteq DOMAIN analysis.connector_usage_count
  /\ analysis.total_custom_code_lines > 0
  /\ analysis.total_components > 0
  /\ analysis.complexity_score = ExpectedScore(analysis)
  /\ analysis.complexity_score > 0

\* C9: a project whose only configuration file declares prefix db for a URI
\* ending in /schema/mule/db and is one bare flow wrapping one db:select
\* yields total_flows = 1, unique_connectors = {"db"},
\* component_types = {"db:select": 1}, connector_usage_count = {"db": 1}.
C9_DbScenario ==
  (/\ pc = "done"
   /\ Len(analysis.files) = 1
   /\ analysis.files[1].filename = D_db.name)
    => /\ analysis.total_flows = 1
       /\ analysis.unique_connectors = {"db"}
       /\ analysis.component_types = (<<"db", ":", "select">> :> 1)
       /\ analysis.connector_usage_count = ("db" :> 1)

\* the scenario of C10: 3 Java files, exactly one configuration file, of
\* 1200 lines and readable, and no element attributed to a connector
C10_Scenario ==
  /\ pc = "done"
  /\ analysis.java_files_count = 3
  /\ analysis.count = 1
  /\ Len(analysis.files) = 1
  /\ FileDoc(1).lines = 1200
  /\ FileDoc(1).enc = "utf8"
  /\ DOMAIN analysis.connector_usage_count \subseteq {"core"}

\* C10 as stated: the scenario yields large_files of length 1 and a nonzero
\* score to which only the java-file term (3 * 5) and the large-file term
\* (1 * 10) contribute.
C10_OnlyJavaAndLargeFileTerms ==
  C10_Scenario
    => /\ Len(analysis.large_files) = 1
       /\ analysis.complexity_score > 0
       /\ analysis.complexity_score = 500 * 3 + 1000 * 1

\* C10 as amended: the scenario yields large_files of length 1 and a score of
\* at least 25 = 3*5 + 1*10; what exceeds 25 is 2 per element attributed to
\* "core", 2 per flow, 1 per sub-flow, 0.1 per component, 0.01 per line of
\* custom code, 3 per dwl file and 5 per complex transformation.
C10_JavaAndLargeFileTermsPlusRest ==
  C10_Scenario
    => /\ Len(analysis.large_files) = 1
       /\ analysis.complexity_score >= 500 * 3 + 1000 * 1
       /\ analysis.complexity_score
            = 500 * 3 + 1000 * 1
              + 200 * Get(analysis.connector_usage_count, "core", 0)
              + 200 * analysis.total_flows + 100 * analysis.total_subflows
              + 10 * analysis.total_components
              + analysis.total_custom_code_lines
              + 300 * analysis.dwl_files_count
              + 500 * analysis.complex_transformations

C10_Witness ==
  /\ C10_Scenario
  /\ FileAnalysed(FileDoc(1))
  /\ analysis.complexity_score > 500 * 3 + 1000 * 1

(***************************************************************************)
(* The directory trees of the discovery walk.  Below the analysis root     *)
(* there is a chain a, a/a, ... of MaxTreeDepth directories, beside every  *)
(* directory of the chain a directory b, and the hidden directory .git     *)
(* with a directory b in it.  A tree says whether the root exists and      *)
(* which of these directories (the root included) hold a project.          *)
(***************************************************************************)
MaxTreeDepth == 5

MaxRoots == 2

\* line 89: max_depth=4
max_depth == 4

Chain(k) == [i \in 1..k |-> "a"]

Side(k) == Append(Chain(k - 1), "b")

DirUniverse ==
  {Chain(k) : k \in 1..MaxTreeDepth} \cup {Side(k) : k \in 1..MaxTreeDepth}
    \cup {<<".git">>, <<".git", "b">>}

\* what marks a project directory: the chain holds pom.xml, a directory b
\* holds mule-artifact.json at odd depth and nothing but src/main/mule at
\* even depth
MarkerOf(dir) ==
  IF dir = <<>> \/ Last(dir) # "b" THEN "pom.xml"
  ELSE IF Len(dir) % 2 = 1 THEN "mule-artifact.json" ELSE "src/main/mule"

K_db ==
  [pom |-> "v4", files |-> <<D_db>>, java |-> 0, badjava |-> 0, javalines |-> 0,
   dwl |-> 0, dwllines |-> 5, munit |-> 0]

K_orders ==
  [pom |-> "none", files |-> <<D_orders>>, java |-> 0, badjava |-> 0,
   javalines |-> 0, dwl |-> 0, dwllines |-> 5, munit |-> 2]

K_subroot ==
  [pom |-> "none", files |-> <<D_subroot>>, java |-> 0, badjava |-> 0,
   javalines |-> 0, dwl |-> 0, dwllines |-> 5, munit |-> 0]

K_legacy ==
  [pom |-> "v3", files |-> <<D_core, D_broken>>, java |-> 3, badjava |-> 1,
   javalines |-> 40, dwl |-> 1, dwllines |-> 101, munit |-> 0]

K_plugin ==
  [pom |-> "plugin", files |-> <<>>, java |-> 1, badjava |-> 0, javalines |-> 40,
   dwl |-> 0, dwllines |-> 5, munit |-> 0]

K_sjis ==
  [pom |-> "none", files |-> <<D_db, D_sjis>>, java |-> 0, badjava |-> 0,
   javalines |-> 0, dwl |-> 0, dwllines |-> 5, munit |-> 0]

\* what a project directory of the tree holds; the project a/a/b has a
\* configuration file in a multi-byte encoding
ContentOf(dir) ==
  IF dir = Side(3) THEN K_sjis
  ELSE CASE MarkerOf(dir) = "pom.xml" -> K_db
         [] MarkerOf(dir) = "mule-artifact.json" -> K_orders
         [] OTHER -> K_subroot

Trees ==
  {[exists |-> TRUE, roots |-> r] :
      r \in {x \in SUBSET (DirUniverse \cup {<<>>}) : Cardinality(x) <= MaxRoots}}
    \cup {NoTree}

\* the files and directories a project directory holds
ProjectEntries(dir) ==
  {dir \o <<"src">>, dir \o <<"src", "main">>, dir \o <<"src", "main", "mule">>}
    \cup (IF MarkerOf(dir) = "src/main/mule" THEN {} ELSE {Append(dir, MarkerOf(dir))})

DirsOf(t) ==
  IF ~t.exists THEN {}
  ELSE {<<>>} \cup DirUniverse
         \cup UNION {{d \o <<"src">>, d \o <<"src", "main">>, d \o <<"src", "main", "mule">>}
                       : d \in t.roots}

EntriesOf(t) ==
  IF ~t.exists THEN {} ELSE DirsOf(t) \cup UNION {ProjectEntries(d) : d \in t.roots}

\* Path.exists()
Exists(t, path) ==
  /\ t.exists
  /\ \/ path = <<>>
     \/ path \in DirUniverse
     \/ \E d \in t.roots :
           \/ path \in ProjectEntries(d)
           \/ path \in {d \o <<"src">>, d \o <<"src", "main">>, d \o <<"src", "main", "mule">>}

\* Path.is_dir()
IsDir(t, path) == path \in DirsOf(t)

\* Path.iterdir()
Children(t, path) ==
  {q \in EntriesOf(t) : Len(q) = Len(path) + 1 /\ SubSeq(q, 1, Len(path)) = path}

\* item.name.startswith('.')
IsHiddenName(name) == name \in {".git"}

(***************************************************************************)
(* analyze_repository_folder and _find_mulesoft_projects_recursive         *)
(***************************************************************************)
\* lines 127-134
_is_mulesoft_project(t, project_path) ==
  \E indicator \in {<<"pom.xml">>, <<"mule-artifact.json">>, <<"src", "main", "mule">>} :
     Exists(t, project_path \o indicator)

\* lines 101-104: the project is skipped by the target-name filter
FilteredOut(targets, item) == targets # {} /\ Last(item) \notin targets

\* a variant that names every project by its directory name
project_display_name_NameOnly(item) == <<Last(item)>>

\* lines 106-119: relative_path is the path itself
project_display_name(item) == IF Len(item) > 1 THEN item ELSE <<Last(item)>>

project_source(item) ==
  IF Len(item) > 1 THEN SubSeq(item, 1, Len(item) - 1) ELSE <<"local">>

\* lines 106-122: the record appended for a project directory
ProjectRecord(item) ==
  analyze_project(item, ContentOf(item))
    @@ [project_display_name |-> project_display_name(item),
        project_source |-> project_source(item)]

\* lines 91-95: the call returns at once
TooDeep(path) == Len(path) > max_depth

\* a variant whose first call also has the analysis root among its items
Frame_WithRootItself(t, path) ==
  [path |-> path,
   todo |-> Children(t, path) \cup (IF path = <<>> THEN {<<>>} ELSE {})]

\* line 97: a call of the recursion and the items its loop has still to test
Frame(t, path) == [path |-> path, todo |-> Children(t, path)]

TargetChoices == {{}, {"b"}}

InitWalk ==
  /\ pc = "start"
  /\ analysis = NewProjectAnalysis(<<>>)
  /\ xml_files = <<>>
  /\ tree \in Trees
  /\ target_projects = {}
  /\ stack = <<>>
  /\ projects = <<>>
  /\ summary = InitialSummary
  /\ visited = {}
  /\ warnings = <<>>
  /\ report_files = {}

\* a variant without the check of line 74
StartWalk_NoRootCheck ==
  /\ pc = "start"
  /\ \E targets \in TargetChoices : target_projects' = targets
  /\ pc' = "walk"
  /\ stack' = <<Frame(tree, <<>>)>>
  /\ UNCHANGED <<analysis, xml_files, tree, projects, summary, visited,
               warnings, report_files>>

\* lines 69-83: the check of the root and the first call of the recursion
StartWalk ==
  /\ pc = "start"
  /\ \E targets \in TargetChoices : target_projects' = targets
  /\ IF ~Exists(tree, <<>>)
     THEN pc' = "error" /\ stack' = stack
     ELSE pc' = "walk" /\ stack' = <<Frame(tree, <<>>)>>
  /\ UNCHANGED <<analysis, xml_files, tree, projects, summary, visited,
               warnings, report_files>>

\* lines 98-104, 121: the loop records the item as a project
Reports(t, targets, item) ==
  /\ IsDir(t, item) /\ ~IsHiddenName(Last(item))
  /\ _is_mulesoft_project(t, item)
  /\ ~FilteredOut(targets, item)

\* a variant that searches below a project the filter has skipped
Descends_BelowFiltered(t, targets, item) ==
  /\ IsDir(t, item) /\ ~IsHiddenName(Last(item))
  /\ ~_is_mulesoft_project(t, item) \/ FilteredOut(targets, item)

\* lines 98-100, 123-125: the loop makes the recursive call for the item
Descends(t, targets, item) ==
  /\ IsDir(t, item) /\ ~IsHiddenName(Last(item))
  /\ ~_is_mulesoft_project(t, item)

\* lines 97-125: one iteration of the loop of the innermost call; the
\* directory listing comes in any order.  An exception that leaves
\* analyze_project (line 111) leaves every call of the recursion and
\* analyze_repository_folder; nothing is appended.
VisitItem ==
  /\ pc = "walk"
  /\ stack # <<>>
  /\ \E item \in Last(stack).todo :
       LET n    == Len(stack)
           rest == [stack EXCEPT ![n].todo = @ \ {item}]
       IN  /\ visited' = visited \cup {item}
           /\ IF Reports(tree, target_projects, item)
              THEN /\ warnings' = warnings \o ProjectWarnings(ContentOf(item))
                   /\ IF ProjectRaises(ContentOf(item))
                      THEN /\ pc' = "crashed"
                           /\ stack' = <<>>
                           /\ UNCHANGED <<projects, summary>>
                      ELSE /\ pc' = pc
                           /\ stack' = rest
                           /\ projects' = Append(projects, ProjectRecord(item))
                           /\ summary' = [summary EXCEPT !.total_projects = @ + 1]
              ELSE /\ pc' = pc
                   /\ stack' = IF Descends(tree, target_projects, item) /\ ~TooDeep(item)
                               THEN Append(rest, Frame(tree, item))
                               ELSE rest
                   /\ UNCHANGED <<projects, summary, warnings>>
  /\ UNCHANGED <<analysis, xml_files, tree, target_projects, report_files>>

\* the loop of the innermost call is over: the call returns
ReturnFromDirectory ==
  /\ pc = "walk"
  /\ stack # <<>>
  /\ Last(stack).todo = {}
  /\ stack' = SubSeq(stack, 1, Len(stack) - 1)
  /\ UNCHANGED <<pc, analysis, xml_files, tree, target_projects, projects, summary, visited,
               warnings, report_files>>

\* lines 85-87
FinishWalk ==
  /\ pc = "walk"
  /\ stack = <<>>
  /\ summary' = _calculate_summary_stats(projects, summary)
  /\ pc' = "done"
  /\ UNCHANGED <<analysis, xml_files, tree, target_projects, stack, projects, visited,
               warnings, report_files>>

\* a file of the output directory
ReportFile(kind, project) == [kind |-> kind, project |-> project]

\* lines 750-778: one JSON file per project
IndividualProjectFiles(ps) ==
  {ReportFile("project_analysis.json", ps[i].project_name) : i \in DOMAIN ps}

\* line 829: total_complexity / len(projects) raises ZeroDivisionError
IndexRaises(ps) == Len(ps) = 0

\* lines 653-741 and 784-829, called at line 1091.  The JSON file is written
\* (717-718), then the comprehensive index is opened for writing (787) and
\* filled; the exception of line 829 leaves generate_report and is caught
\* at line 1093, after which main exits with status 1.
GenerateReport ==
  /\ pc = "done"
  /\ \E individual_files \in BOOLEAN :
       report_files' =
          {ReportFile("mulesoft_analysis_analysis.json", "")}
            \cup (IF individual_files THEN IndividualProjectFiles(projects) ELSE {})
            \cup {ReportFile("mulesoft_analysis_comprehensive.txt", "")}
            \cup (IF IndexRaises(projects) THEN {}
                  ELSE {ReportFile("mulesoft_analysis_summary.txt", "")})
  /\ pc' = IF IndexRaises(projects) THEN "crashed" ELSE "reported"
  /\ UNCHANGED <<analysis, xml_files, tree, target_projects, stack, projects, summary,
               visited, warnings>>

NextWalk == StartWalk \/ VisitItem \/ ReturnFromDirectory \/ FinishWalk \/ GenerateReport

SpecWalk == InitWalk /\ [][NextWalk]_vars

(***************************************************************************)
(* Properties of the discovery walk (checked under SpecWalk).              *)
(***************************************************************************)
\* the proper ancestors of a path below the analysis root
AncestorsBelowRoot(path) == {SubSeq(path, 1, k) : k \in 1..(Len(path) - 1)}

\* C5: discovery never reports a project whose depth (the number of parts of
\* its path below the analysis root) is greater than the maximum depth 4.
C5_DepthWithinMaximum ==
  \A i \in DOMAIN projects : Len(projects[i].project_path) <= max_depth

\* C6: once a directory satisfies the project-root predicate, discovery
\* never looks at anything inside it, whether the project is recorded or
\* filtered out by the target names; so no reported project has a proper
\* ancestor below the analysis root that is itself a project root.
C6_NothingVisitedInsideProject ==
  [][/\ \A v \in visited' \ visited :
          \A anc \in AncestorsBelowRoot(v) : ~_is_mulesoft_project(tree, anc)
     /\ \A i \in DOMAIN projects' \ DOMAIN projects :
          \A anc \in AncestorsBelowRoot(projects'[i].project_path) :
             ~_is_mulesoft_project(tree, anc)]_vars

C6_Witness ==
  /\ pc = "done"
  /\ target_projects = {"b"}
  /\ tree.roots = {<<"a">>, <<"a", "b">>}
  /\ <<"a">> \in visited
  /\ <<"a", "b">> \notin visited
  /\ projects = <<>>

(***************************************************************************)
(* SpecSummary: projects are appended to the result list, as discovery     *)
(* does, and the summary is computed over the list.                        *)
(***************************************************************************)
MaxProjects == 3

ContentSet == {K_db, K_orders, K_subroot, K_legacy, K_plugin}

InitSummary ==
  /\ pc = "collect"
  /\ analysis = NewProjectAnalysis(<<>>)
  /\ xml_files = <<>>
  /\ tree = NoTree
  /\ target_projects = {}
  /\ stack = <<>>
  /\ projects = <<>>
  /\ summary = InitialSummary
  /\ visited = {}
  /\ warnings = <<>>
  /\ report_files = {}

\* lines 111-122: a project is analysed and appended
RecordProject ==
  /\ Len(projects) < MaxProjects
  /\ \E content \in ContentSet :
       projects' = Append(projects, analyze_project(<<"p">>, content))
  /\ summary' = [summary EXCEPT !.total_projects = @ + 1]
  /\ pc' = "collect"
  /\ UNCHANGED <<analysis, xml_files, tree, target_projects, stack, visited,
               warnings, report_files>>

\* line 86
CalculateSummaryStats ==
  /\ pc = "collect"
  /\ summary' = _calculate_summary_stats(projects, summary)
  /\ pc' = "summarised"
  /\ UNCHANGED <<analysis, xml_files, tree, target_projects, stack, projects, visited,
               warnings, report_files>>

NextSummary == RecordProject \/ CalculateSummaryStats

SpecSummary == InitSummary /\ [][NextSummary]_vars

\* the lists that hold the same projects in another order
Reorderings(ps) ==
  {[i \in DOMAIN ps |-> ps[f[i]]] :
      f \in {g \in [DOMAIN ps -> DOMAIN ps] : \A i, j \in DOMAIN ps : i # j => g[i] # g[j]}}

\* C7: for every list of project results and every permutation of it,
\* _calculate_summary_stats yields identical version buckets, identical
\* totals (flows, sub-flows, components, Java files, dwl files, MUnit files,
\* complexity) and identical connector and component-type tables.
C7_SummaryIsOrderIndependent ==
  pc = "summarised"
    => \A ps \in Reorderings(projects) :
          _calculate_summary_stats(ps, summary) = summary

(***************************************************************************)
(* Failure handling: C11, C12 under Spec; C13, C14 under SpecWalk.         *)
(***************************************************************************)
\* a configuration file that is malformed or is not UTF-8
BadFile(doc) == doc.enc # "utf8" \/ ~ParseOk(doc)

ProcessedDocs == [i \in DOMAIN analysis.files |-> FileDoc(i)]

IsGoodDoc(doc) == ~BadFile(doc)

\* the project as it would be had only the well-formed UTF-8 files been there
WithoutBadFiles ==
  AnalyzeFiles(SelectSeq(ProcessedDocs, IsGoodDoc), NewProjectAnalysis(<<"orders">>))

\* C11: when a configuration file of the project is malformed or
\* undecodable, a warning is printed for it, the flows, sub-flows and
\* components of the project are those of its other files, and the analysis
\* of the project goes on to its score instead of raising.
C11_BadFileIsSkipped ==
  (\E i \in DOMAIN analysis.files : BadFile(FileDoc(i)))
    => /\ pc # "crashed"
       /\ \A i \in DOMAIN analysis.files :
             BadFile(FileDoc(i))
               => \E k \in DOMAIN warnings : warnings[k].file = analysis.files[i].filename
       /\ analysis.total_flows = WithoutBadFiles.total_flows
       /\ analysis.total_subflows = WithoutBadFiles.total_subflows
       /\ analysis.total_components = WithoutBadFiles.total_components

\* C12: a configuration file that cannot be read, decoded or parsed has a
\* recorded line count, flows, sub-flows and components of 0 and an empty
\* tally, has no entry in large_files, and adds nothing to
\* connector_usage_count, component_types, unique_connectors and the
\* expression counters (so, while the loop over the files runs, these are
\* empty when every file processed so far is such a file).
C12_BadFileContributesZero ==
  /\ \A i \in DOMAIN analysis.files :
        BadFile(FileDoc(i))
          => /\ analysis.files[i].size_lines = 0
             /\ analysis.files[i].flows = 0
             /\ analysis.files[i].subflows = 0
             /\ analysis.files[i].components = 0
             /\ analysis.files[i].xml_tags_by_namespace = EmptyDict
             /\ \A k \in DOMAIN analysis.large_files :
                   analysis.large_files[k].filename # analysis.files[i].filename
  /\ (pc = "files" /\ \A i \in DOMAIN analysis.files : BadFile(FileDoc(i)))
        => /\ analysis.connector_usage_count = EmptyDict
           /\ analysis.component_types = EmptyDict
           /\ analysis.unique_connectors = {}
           /\ analysis.inline_dw_expressions_count = 0
           /\ analysis.complex_transformations = 0
           /\ analysis.total_dw_lines = 0

\* C13: for every existing root directory the run completes the analysis
\* and the generation of the report without an exception leaving it.
C13_RunCompletes == tree.exists => pc # "crashed"

\* C14: when the root path does not exist the run stops at the check of
\* line 74: nothing is listed, no project is analysed or counted, and no
\* report file is written.
C14_MissingRootStopsRun ==
  ~tree.exists
    => /\ pc \in {"start", "error"}
       /\ stack = <<>>
       /\ visited = {}
       /\ projects = <<>>
       /\ summary = InitialSummary
       /\ report_files = {}

C14_Witness == pc = "error" /\ ~tree.exists /\ target_projects = {"b"}

(***************************************************************************)
(* SpecScan: _analyze_dataweave_in_xml on the text of one file.  The text  *)
(* holds one expression block of n lines; the block is a plain #[...]      *)
(* expression, a CDATA-wrapped #[...] expression, or a CDATA section with  *)
(* an "output application/json --- ..." script; one line of the body       *)
(* optionally holds an index selector x[0].                                *)
(***************************************************************************)
MaxBlockLines == 16

BlockKinds == {"simple", "cdata", "transform"}

\* n lines of body, the one numbered selector_line (0: none) with x[0]
RECURSIVE BodyWithSelector(_, _)
BodyWithSelector(n, selector_line) ==
  LET this == IF selector_line = 1 THEN <<"x", "[", "0", "]">> ELSE <<"x">>
  IN  IF n = 1 THEN this
      ELSE this \o <<"\n">> \o BodyWithSelector(n - 1, selector_line - 1)

\* the text of a block of n lines in all (n >= 3 for a script, whose first
\* two lines are the output directive and the separator)
BlockText(kind, n, selector_line) ==
  CASE kind = "simple" ->
         <<"#", "[">> \o BodyWithSelector(n, selector_line) \o <<"]">>
    [] kind = "cdata" ->
         <<"<![CDATA[", "#", "[">> \o BodyWithSelector(n, selector_line)
           \o <<"]", "]", "]", ">">>
    [] kind = "transform" ->
         <<"<![CDATA[", "output application/json", "\n", "---", "\n">>
           \o BodyWithSelector(n - 2, selector_line - 2) \o <<"]", "]", ">">>

ScanDoc(kind, n, selector_line) ==
  MkDoc("scan.xml", "utf8", TRUE, n, <<>>, <<El("", "mule")>>,
        BlockText(kind, n, selector_line))

InitScan ==
  /\ pc = "scan"
  /\ analysis = NewProjectAnalysis(<<"orders">>)
  /\ \E kind \in BlockKinds, n \in 3..MaxBlockLines :
        \E selector_line \in {0} \cup (IF kind = "transform" THEN 3..n ELSE 1..n) :
           xml_files = <<ScanDoc(kind, n, selector_line)>>
  /\ tree = NoTree
  /\ target_projects = {}
  /\ stack = <<>>
  /\ projects = <<>>
  /\ summary = InitialSummary
  /\ visited = {}
  /\ warnings = <<>>
  /\ report_files = {}

\* line 269
AnalyzeDataweaveInXml ==
  /\ pc = "scan"
  /\ analysis' = _analyze_dataweave_in_xml(Head(xml_files), analysis)
  /\ pc' = "scanned"
  /\ UNCHANGED <<xml_files, warnings, walkVars>>

NextScan == AnalyzeDataweaveInXml

SpecScan == InitScan /\ [][NextScan]_vars

\* C15: for every file text with an embedded expression block that spans
\* 15 lines, whatever the body holds, the scan counts at least one inline
\* expression and at least one complex transformation.
C15_LongBlockIsComplex ==
  (pc = "scanned" /\ Head(xml_files).lines = 15)
    => /\ analysis.inline_dw_expressions_count >= 1
       /\ analysis.complex_transformations >= 1

(***************************************************************************)
(* Namespace resolution and attribution: C16 .. C20 under Spec.            *)
(***************************************************************************)
\* the prefixes the root of the document declares for a URI that matches
\* the connector-schema convention
ConventionPrefixes(doc) ==
  {p \in DeclaredPrefixes(doc) : MatchesConvention(UriOfPrefix(doc, p))}

HasSchemaLocation(doc) == SchemaLocationParts(getroot(doc)) # <<>>

\* C16: for a parsed document without schema-location declaration, every
\* namespace declaration of the root whose URI matches the connector-schema
\* convention has the resolver entry URI -> {declared prefix, final path
\* segment of the URI}.
C16_DeclarationsAreResolved ==
  \A i \in DOMAIN analysis.files :
     LET doc == FileDoc(i)
     IN  (FileAnalysed(doc) /\ ~HasSchemaLocation(doc))
           => \A p \in ConventionPrefixes(doc) :
                 LET uri == UriOfPrefix(doc, p)
                     m   == namespace_mappings(getroot(doc))
                 IN  /\ uri \in DOMAIN m
                     /\ m[uri] = [prefix |-> p, connector_name |-> LastSegment(uri)]

\* the files whose connectors have been extracted (the parse of line 377
\* went through)
Extracted(i) == ParseOk(FileDoc(i)) /\ ~ExtractRaises(FileDoc(i))

\* C17: unique_connectors holds every connector a parsed file of the
\* project declares (a prefix for a convention URI whose final segment is
\* not a reserved name), also when no element is attributed to it.
C17_DeclaredConnectorsAreListed ==
  \A i \in DOMAIN analysis.files :
     Extracted(i)
       => \A p \in ConventionPrefixes(FileDoc(i)) :
             LET c == LastSegment(UriOfPrefix(FileDoc(i), p))
             IN  ~IsReservedName(c) => c \in analysis.unique_connectors

\* C18: every key "<connector>:<localName>" of component_types names a
\* member of unique_connectors.
C18_ComponentConnectorsAreListed ==
  \A k \in DOMAIN analysis.component_types :
     Len(k) = 3 => k[1] \in analysis.unique_connectors

\* the namespace_key of an element, the resolver being the one C16 states
StatedNamespaceKey(doc, tag) ==
  IF tag.ns = NoNs THEN NsKey("default", "", "", NoNs)
  ELSE IF ~MatchesConvention(tag.ns) THEN NsKey("other", "", "", tag.ns)
  ELSE LET ps == {p \in DeclaredPrefixes(doc) : UriOfPrefix(doc, p) = tag.ns}
       IN  IF ps = {} THEN NsKey("ns", LastSegment(tag.ns), "", NoNs)
           ELSE NsKey("resolved", LastSegment(tag.ns), CHOOSE p \in ps : TRUE, NoNs)

\* C19: the tally of a parsed document counts every element, root included,
\* once, under the namespace_key of its class: "<connector> (<prefix>:)" for
\* a URI with a resolver entry, "<segment> (ns:)" for a convention URI
\* without one, "other (<uri>)" for another URI, "default" without namespace.
C19_TallyClassifiesEveryElement ==
  \A i \in DOMAIN analysis.files :
     LET doc   == FileDoc(i)
         tally == analysis.files[i].xml_tags_by_namespace
         iter  == getroot(doc).iter
     IN  FileAnalysed(doc)
           => /\ SumNested(tally) = Len(iter)
              /\ \A j \in DOMAIN iter :
                    LET k == StatedNamespaceKey(doc, iter[j])
                    IN  /\ k \in DOMAIN tally
                        /\ iter[j].local \in DOMAIN tally[k]
                        /\ tally[k][iter[j].local]
                             = Cardinality({h \in DOMAIN iter :
                                   /\ StatedNamespaceKey(doc, iter[h]) = k
                                   /\ iter[h].local = iter[j].local})

\* the connector the attribution pass is to give an element ("" for none)
StatedConnector(tag) ==
  IF tag.ns = NoNs THEN "core"
  ELSE IF ~MatchesConvention(tag.ns) THEN NoConnector
  ELSE IF LastSegment(tag.ns) \in {"core", "documentation"} THEN "core"
  ELSE LastSegment(tag.ns)

StatedComponentType(tag) ==
  IF StatedConnector(tag) = "core" THEN <<tag.local>>
  ELSE <<StatedConnector(tag), ":", tag.local>>

\* the tags of the file the loop over xml_files is at
NextFileTags == getroot(Head(xml_files)).iter

\* table counts the stated attribution of the tags, under the key Key(tag)
CountsAdded(Key(_), old, new, tags) ==
  LET attributed == {j \in DOMAIN tags : StatedConnector(tags[j]) # NoConnector}
  IN  /\ DOMAIN new = DOMAIN old \cup {Key(tags[j]) : j \in attributed}
      /\ \A k \in DOMAIN new :
            new[k] = Get(old, k, 0)
                       + Cardinality({j \in attributed : Key(tags[j]) = k})

\* C20: each element is attributed to at most one connector: the final
\* segment of a convention URI (core and documentation collapsed to core),
\* nothing for another URI, core without namespace; processing a file adds,
\* for each of its elements with a connector, 1 to the connector in
\* connector_usage_count and 1 to "<connector>:<localName>" (the bare
\* localName for core) in component_types, and nothing else changes the
\* two tables.
C20_AttributionByNamespace ==
  [][IF /\ pc = "files" /\ xml_files # <<>>
        /\ ParseOk(Head(xml_files)) /\ ~ExtractRaises(Head(xml_files))
     THEN /\ CountsAdded(StatedConnector, analysis.connector_usage_count,
                         analysis'.connector_usage_count, NextFileTags)
          /\ CountsAdded(StatedComponentType, analysis.component_types,
                         analysis'.component_types, NextFileTags)
     ELSE /\ analysis'.connector_usage_count = analysis.connector_usage_count
          /\ analysis'.component_types = analysis.component_types]_vars

\* the tags of the files whose connectors have been extracted
ExtractedTags ==
  UNION {Range(getroot(FileDoc(i)).iter) :
            i \in {h \in DOMAIN analysis.files : Extracted(h)}}

C20_Witness ==
  /\ pc = "done"
  /\ \E t \in ExtractedTags : StatedConnector(t) = NoConnector
  /\ \E t \in ExtractedTags : StatedConnector(t) \notin {NoConnector, "core"}
  /\ \E t \in ExtractedTags : StatedConnector(t) = "core"
  /\ Cardinality(DOMAIN analysis.component_types) >= 3

(***************************************************************************)
(* Growth of the connector tables over the files of a project (Spec).      *)
(***************************************************************************)
\* ET.parse of line 377 raises (ParseError, or ValueError for the encoding)
ParseFails(doc) == ~ParseOk(doc) \/ ExtractRaises(doc)

\* every key of old is a key of new, with a count that is not smaller
NeverDecreases(old, new) ==
  /\ DOMAIN old \subseteq DOMAIN new
  /\ \A k \in DOMAIN old : new[k] >= old[k]

\* C21: from one step of the analysis of a project to the next, no key of
\* connector_usage_count or component_types is removed and no count gets
\* smaller; the step for a file whose parse fails leaves both tables as
\* they were.
C21_TablesOnlyGrow ==
  [][/\ NeverDecreases(analysis.connector_usage_count, analysis'.connector_usage_count)
     /\ NeverDecreases(analysis.component_types, analysis'.component_types)
     /\ (pc = "files" /\ xml_files # <<>> /\ ParseFails(Head(xml_files)))
           => /\ analysis'.connector_usage_count = analysis.connector_usage_count
              /\ analysis'.component_types = analysis.component_types]_vars

\* a file that parsed has filled the tables, a file whose parse failed
\* came after it, and the loop over the files is over
C21_Witness ==
  /\ pc = "files"
  /\ xml_files = <<>>
  /\ Len(analysis.files) = 2
  /\ ~ParseFails(FileDoc(1))
  /\ ParseFails(FileDoc(2))
  /\ Get(analysis.connector_usage_count, "db", 0) >= 1
  /\ DOMAIN analysis.component_types # {}

(***************************************************************************)
(* What discovery reports (checked under SpecWalk).                        *)
(***************************************************************************)
\* the project-root predicate in the words of the description: the
\* directory contains pom.xml, mule-artifact.json or src/main/mule
StatedProjectRoot(t, dir) ==
  \/ Exists(t, Append(dir, "pom.xml"))
  \/ Exists(t, Append(dir, "mule-artifact.json"))
  \/ Exists(t, dir \o <<"src", "main", "mule">>)

\* the directories below the analysis root that are to be reported when
\* projects down to the depth bound are reported
StatedDiscovery(t, targets, bound) ==
  {dir \in DirsOf(t) \ {<<>>} :
     /\ StatedProjectRoot(t, dir)
     /\ \A k \in 1..Len(dir) : ~IsHiddenName(dir[k])
     /\ \A anc \in AncestorsBelowRoot(dir) : ~StatedProjectRoot(t, anc)
     /\ Len(dir) <= bound
     /\ (targets # {} => Last(dir) \in targets)}

\* the paths of the projects of the result list
ReportedPaths == {projects[i].project_path : i \in DOMAIN projects}

\* C22: when discovery is over, the reported directories are exactly the
\* directories that satisfy the project-root predicate, have no name
\* starting with '.' on their path below the root, have no project root
\* between the root and themselves, lie at a depth of at most the maximum
\* depth 4 and, with a target-name set, have their own name in the set.
C22_ReportedExactlyWhenStated ==
  pc = "done" => ReportedPaths = StatedDiscovery(tree, target_projects, max_depth)

\* C23: every reported project below a directory of the root has its full
\* relative path as project_display_name and the relative path of its
\* parent as project_source; every reported project that is an immediate
\* child of the root has its directory name as project_display_name and
\* "local" as project_source; with or without target names.
C23_DisplayNameAndSource ==
  \A i \in DOMAIN projects :
     LET relative_path == projects[i].project_path
         parts == Len(relative_path)
     IN  IF parts > 1
         THEN /\ projects[i].project_display_name = relative_path
              /\ projects[i].project_source = SubSeq(relative_path, 1, parts - 1)
         ELSE /\ projects[i].project_display_name = <<relative_path[parts]>>
              /\ projects[i].project_source = <<"local">>

\* a nested project and a top-level project were reported under a filter
C23_Witness ==
  /\ pc = "done"
  /\ target_projects = {"b"}
  /\ ReportedPaths = {<<"b">>, <<"a", "b">>}

(***************************************************************************)
(* The version buckets of the summary (checked under SpecSummary, where a  *)
(* further call appends to the same list and summarises again).            *)
(***************************************************************************)
\* the projects of the list whose version string starts with major + "."
ProjectsOfMajor(major) ==
  {i \in DOMAIN projects : StartsWithMajor(projects[i].mule_version, major)}

\* C24: after the summary is computed, also by a repeated call,
\* mule_4_projects counts the projects whose version starts with "4.",
\* mule_3_projects those whose version starts with "3.",
\* unknown_version_projects all others ("unknown" and "plugin-..."
\* included); the three counts sum to total_projects, which is the length
\* of the project list.
C24_VersionBucketsPartition ==
  pc = "summarised"
    => /\ summary.mule_4_projects = Cardinality(ProjectsOfMajor("4"))
       /\ summary.mule_3_projects = Cardinality(ProjectsOfMajor("3"))
       /\ summary.unknown_version_projects
             = Cardinality(DOMAIN projects \ (ProjectsOfMajor("4") \cup ProjectsOfMajor("3")))
       /\ summary.mule_4_projects + summary.mule_3_projects
             + summary.unknown_version_projects = summary.total_projects
       /\ summary.total_projects = Len(projects)

\* a 4.x project, a 3.x project and a project with a plugin version are
\* summarised
C24_Witness ==
  /\ pc = "summarised"
  /\ summary.mule_4_projects = 1
  /\ summary.mule_3_projects = 1
  /\ summary.unknown_version_projects = 1
  /\ \E i \in DOMAIN projects : projects[i].mule_version = V_plugin

(***************************************************************************)
(* Independence of a file's results from the files processed before it     *)
(* (checked under Spec, where the files of a project come in any order).   *)
(***************************************************************************)
\* the iteration of lines 240-269 for doc as the first file of a new project
ProcessedAlone(doc) ==
  IF ExtractRaises(doc)
  THEN RecordFile(doc, _analyze_xml_file(doc), NewProjectAnalysis(<<"orders">>))
  ELSE AnalyzeOneFile(doc, NewProjectAnalysis(<<"orders">>))

\* new is old with the counts of alone added
SameIncrements(old, new, alone) ==
  /\ DOMAIN new = DOMAIN old \cup DOMAIN alone
  /\ \A k \in DOMAIN new : new[k] - Get(old, k, 0) = Get(alone, k, 0)

\* C25: whatever files were processed before it, the step for a file
\* records the tally and adds to connector_usage_count and component_types
\* the counts that the same file gives when it is processed alone.
C25_FileResultsDependOnFileOnly ==
  [][(pc = "files" /\ xml_files # <<>>)
       => LET alone == ProcessedAlone(Head(xml_files))
          IN  /\ Last(analysis'.files).xml_tags_by_namespace
                    = alone.files[1].xml_tags_by_namespace
              /\ SameIncrements(analysis.connector_usage_count,
                                analysis'.connector_usage_count,
                                alone.connector_usage_count)
              /\ SameIncrements(analysis.component_types,
                                analysis'.component_types,
                                alone.component_types)]_vars

\* two parsed files that use the same connector were processed one after
\* the other
C25_Witness ==
  /\ pc = "files"
  /\ xml_files = <<>>
  /\ Len(analysis.files) = 2
  /\ analysis.files[1].xml_tags_by_namespace # EmptyDict
  /\ analysis.files[2].xml_tags_by_namespace # EmptyDict
  /\ analysis.files[1].xml_tags_by_namespace # analysis.files[2].xml_tags_by_namespace
  /\ Get(analysis.connector_usage_count, "db", 0) >= 2

(***************************************************************************)
(* Termination of discovery.  The chain a, a/a, ... with a directory b     *)
(* beside every directory of it is also what a link a -> . in a directory  *)
(* that holds b looks like to the walk, which sees lexical paths only; the *)
(* trees cut it at MaxTreeDepth, below the deepest directory the walk      *)
(* lists.  The program runs one step after the other, so a step that can   *)
(* be taken is taken: weak fairness of the steps of the walk.              *)
(***************************************************************************)
\* what a step of NextWalk does to pc and stack: every step of NextWalk
\* changes pc or stack and is a step of WalkStep, and WalkStep can be taken
\* exactly where NextWalk can
WalkStep ==
  \/ /\ pc = "start"
     /\ pc' \in {"walk", "error"}
     /\ stack' \in {stack, <<Frame(tree, <<>>)>>}
  \/ /\ pc = "walk" /\ stack # <<>>
     /\ \E item \in Last(stack).todo :
          LET rest == [stack EXCEPT ![Len(stack)].todo = @ \ {item}]
          IN  stack' \in {rest, Append(rest, Frame(tree, item)), <<>>}
     /\ pc' \in {"walk", "crashed"}
  \/ /\ pc = "walk" /\ stack # <<>> /\ Last(stack).todo = {}
     /\ stack' = SubSeq(stack, 1, Len(stack) - 1)
     /\ pc' = pc
  \/ /\ pc = "walk" /\ stack = <<>>
     /\ pc' = "done"
     /\ stack' = stack
  \/ /\ pc = "done"
     /\ pc' \in {"reported", "crashed"}
     /\ stack' = stack

SpecWalkFair == InitWalk /\ [][NextWalk]_vars /\ WF_<<pc, stack>>(WalkStep)

\* C26: no call of the recursion lists a directory deeper than the maximum
\* depth, and a discovery that has started reaches the computation of the
\* summary.
C26_DiscoveryReachesSummary ==
  /\ [](\A i \in DOMAIN stack : Len(stack[i].path) <= max_depth)
  /\ (pc = "walk" ~> pc = "done")

(***************************************************************************)
(* The two passes of the resolver (checked under Spec).                    *)
(***************************************************************************)
\* C27: for every parsed document, the namespace mapping of
\* _analyze_xml_file and the prefix-to-connector map of
\* _extract_connectors_from_xml, each built by the schema-location pass
\* followed by the direct-declaration pass, equal what the
\* direct-declaration pass builds from an empty map.
C27_SchemaLocationPassIsRedundant ==
  pc = "files"
    => \A i \in DOMAIN analysis.files :
          ParseOk(FileDoc(i))
            => LET root == getroot(FileDoc(i))
               IN  /\ namespace_mappings(root)
                         = DirectDeclarationPass(root.attrib, 1, EmptyDict)
                   /\ namespaces(root)
                         = DirectDeclarationPrefixes(root.attrib, 1, EmptyDict)

\* a file was processed whose schemaLocation lists a connector URI that
\* the document declares with a prefix
C27_Witness ==
  /\ pc = "files"
  /\ \E i \in DOMAIN analysis.files :
        /\ Extracted(i)
        /\ HasSchemaLocation(FileDoc(i))
        /\ \E p \in DeclaredPrefixes(FileDoc(i)) :
              /\ MatchesConvention(UriOfPrefix(FileDoc(i), p))
              /\ UriOfPrefix(FileDoc(i), p) \in Range(SchemaLocationParts(getroot(FileDoc(i))))

(***************************************************************************)
(* The totals of the two connector tables (checked under Spec).            *)
(***************************************************************************)
\* the files of the project that line 377 has parsed
ParsedFiles == {i \in DOMAIN analysis.files : Extracted(i)}

\* C28: while the files of a project are processed, the counts of
\* connector_usage_count and the counts of component_types have the same
\* sum, and the sum is at most total_components plus the number of parsed
\* files, which is the number of elements of the parsed files.
C28_TableSumsWithinElementCount ==
  pc = "files"
    => /\ SumDict(analysis.connector_usage_count) = SumDict(analysis.component_types)
       /\ SumDict(analysis.connector_usage_count)
             <= analysis.total_components + Cardinality(ParsedFiles)

(***************************************************************************)
(* The analysis root (checked under SpecWalk).                             *)
(***************************************************************************)
\* C29: the analysis root is never an item of the loop that tests the
\* project-root predicate and is never reported: every reported project is
\* a directory strictly below the root, also when the root is a project
\* root itself.
C29_RootIsNeverReported ==
  /\ \A i \in DOMAIN stack : <<>> \notin stack[i].todo
  /\ <<>> \notin visited
  /\ \A i \in DOMAIN projects :
        /\ Len(projects[i].project_path) >= 1
        /\ IsDir(tree, projects[i].project_path)

\* the root is a project root, the walk went through its src directory
\* and reported a project below the root
C29_Witness ==
  /\ pc = "done"
  /\ _is_mulesoft_project(tree, <<>>)
  /\ <<"src", "main", "mule">> \in visited
  /\ projects # <<>>

====
